---- MODULE Spec2Model ----
(***************************************************************************)
(* Link resolution and batching of graphql-weaver.                         *)
(*                                                                         *)
(* The repository holds two revisions of SchemaLinkTransformer:            *)
(*   "links"   - src/src/graphql/links.ts                                  *)
(*   "part000" - src/unnamed/part_000                                      *)
(* The variable impl selects the revision a behaviour runs; every formula  *)
(* is checked over both.                                                   *)
(*                                                                         *)
(* A behaviour first composes the schema (transformField is offered every  *)
(* field once, in order) and then, if composition did not abort, serves    *)
(* resolver invocations: config_resolve, the DataLoader's deferred         *)
(* dispatch (resolveBatch / basicResolve up to the backend call) and the   *)
(* completion of a backend call (the rest of resolveBatch).                *)
(***************************************************************************)
EXTENDS Integers, Sequences, FiniteSets, TLC

\* ------------------------------------------------------------------ bounds
MaxKey == 2          \* truthy link values are 1..MaxKey
MaxCalls == 2        \* distinct resolver invocations recorded in one behaviour
MaxContexts == 2     \* client requests (context objects) alive at once

\* ------------------------------------------------------------ value domains
Impls == {"links", "part000"}

Keys == 1..MaxKey
\* JavaScript falsy link values: 0 is the number 0, -1 stands for null.
NullValue == 0 - 1
FalsyValues == {0, NullValue}
LinkValues == Keys \cup FalsyValues
Truthy(v) == v \notin FalsyValues

Contexts == 1..MaxContexts

NoKeyField == "<unset>"
NoAlias == "<none>"

\* results and settled values
Pending == [t |-> "pending"]
Undefined == [t |-> "undefined"]
NullResult == [t |-> "null"]
Err(m) == [t |-> "error", msg |-> m]
Item(k, q) == [t |-> "item", key |-> k, q |-> q]
PromiseOf(q) == [t |-> "promise", q |-> q]
Scalar(f, k) == [t |-> "scalar", f |-> f, k |-> k]
ArrayOf(s) == [t |-> "array", items |-> s]

Range(s) == {s[i] : i \in DOMAIN s}

\* ---------------------------------------------------------------- strings
\* A string is a sequence of one-character strings.
StartsWith(s, p) == Len(s) >= Len(p) /\ SubSeq(s, 1, Len(p)) = p
\* mutant of Substr: the prefix is not cut off
SubstrWhole(s, from) == s

Substr(s, from) == SubSeq(s, from + 1, Len(s))

\* String.prototype.split on a one-character separator
RECURSIVE Split(_, _)
Split(s, sep) ==
    IF \E i \in DOMAIN s : s[i] = sep
    THEN LET i == CHOOSE j \in DOMAIN s : s[j] = sep /\ \A h \in 1..(j - 1) : s[h] # sep
         IN <<SubSeq(s, 1, i - 1)>> \o Split(SubSeq(s, i + 1, Len(s)), sep)
    ELSE <<s>>

\* mutant of Reverse: the parts are wrapped in the order of the path
Unreversed(s) == s

Reverse(s) == [i \in DOMAIN s |-> s[Len(s) + 1 - i]]

\* ----------------------------------------------------------- configuration
VARIABLES
    impl,             \* the revision of SchemaLinkTransformer that runs
    link,             \* the LinkConfig of the configured links
    queryRootKind,    \* kind of the type of Query.<target endpoint> in the merged schema
    composition,      \* "running", "aborted" or "done"
    visited,          \* number of fields already offered to transformField
    installed,        \* fields whose config.resolve is the link resolver
    compositionError, \* the error that aborted composition
    dataLoaders,      \* per link field: context -> loader (0: no entry)
    keyFieldAlias,    \* per link field: the closure variable keyFieldAlias
    loaders,          \* the DataLoader objects created so far
    batches,          \* the calls of resolveBatch so far
    queries,          \* the backend calls issued so far
    calls,            \* the resolver invocations so far
    endpointConfigs,  \* config.endpoints: name and type prefix, in configuration order
    variableDefinitions, \* names of the variables the caller's operation declares
    variableValues,   \* info.variableValues: the caller's value of each declared variable
    linkValue,        \* the link value basicResolve forwards
    forwarded,        \* the variable part and the argument of the forwarded query
    lookup,           \* a merged type name handed to splitTypeName
    routed,           \* what splitTypeName returned for it
    namedSchemas,     \* the argument of mergeSchemas
    mergedSchema,     \* what mergeSchemas returned
    abstractType,     \* the interface or union type whose resolveType is called
    obj,              \* a value handed to resolveType of an abstract type
    typeRegistry,     \* context.findType: the types of the merged schema by name
    resolved          \* what resolveType returned or threw

configVars == <<impl, link, queryRootKind, endpointConfigs>>
composeVars == <<composition, visited, installed, compositionError>>
runVars == <<dataLoaders, keyFieldAlias, loaders, batches, queries, calls>>
queryVars == <<variableDefinitions, variableValues, linkValue, forwarded>>
routeVars == <<lookup, routed>>
mergeVars == <<namedSchemas, mergedSchema>>
typeVars == <<abstractType, obj, typeRegistry, resolved>>
\* the variables of the specifications of single functions
functionVars == <<queryVars, routeVars, mergeVars, typeVars>>
vars == <<configVars, composeVars, runVars, functionVars>>

\* the value of a variable in a specification that does not use it
Unused == "<unused>"
QueryUnused ==
    /\ variableDefinitions = Unused
    /\ variableValues = Unused
    /\ linkValue = Unused
    /\ forwarded = Unused
RouteUnused == lookup = Unused /\ routed = Unused
MergeUnused == namedSchemas = Unused /\ mergedSchema = Unused
TypeUnused ==
    /\ abstractType = Unused
    /\ obj = Unused
    /\ typeRegistry = Unused
    /\ resolved = Unused

\* dotted argument paths of a link: "" and "f.i"
ArgumentPaths == {<< >>, <<"f", ".", "i">>}

TargetEndpoints == {"users", "ghost"}

LinkConfigs ==
    [endpoint : TargetEndpoints, field : {"user"}, argument : ArgumentPaths,
     batchMode : BOOLEAN, keyField : {NoKeyField, "id"}]

NoLink == [endpoint |-> "<no link>"]

\* link keys "TypeName.fieldName" of the endpoint posts
PostLinkNames == {<< <<"T">>, "author" >>, << <<"T">>, "editor" >>}

\* the configured endpoints, in configuration order
endpoints ==
    [i \in DOMAIN endpointConfigs |->
        [name |-> endpointConfigs[i].name,
         typePrefix |-> endpointConfigs[i].typePrefix,
         links |-> IF endpointConfigs[i].name = "posts"
                   THEN [n \in PostLinkNames |-> link] ELSE << >>]]

\* the configuration of the link specification
LinkEndpointConfigs ==
    << [name |-> "posts", typePrefix |-> <<"p">>],
       [name |-> "users", typePrefix |-> <<"u">>] >>

\* new Map(endpoints.map(endpoint => [endpoint.name, endpoint]))
endpointMap ==
    [n \in {endpoints[i].name : i \in DOMAIN endpoints} |->
        endpoints[CHOOSE i \in DOMAIN endpoints :
            /\ endpoints[i].name = n
            /\ \A j \in DOMAIN endpoints : endpoints[j].name = n => j <= i]]

getTypePrefix(endpoint) == endpoint.typePrefix

NoSplit == [endpointName |-> "<undefined>"]

\* mutant of splitTypeNameFirstMatch: the last endpoint whose prefix starts the name
splitTypeNameLastMatch(mergedName) ==
    LET hits == {i \in DOMAIN endpoints : StartsWith(mergedName, getTypePrefix(endpoints[i]))}
    IN IF hits = {} THEN NoSplit
       ELSE LET i == CHOOSE h \in hits : \A g \in hits : g <= h
            IN [endpointName |-> endpoints[i].name,
                typeName |-> Substr(mergedName, Len(getTypePrefix(endpoints[i])))]

\* links.ts: the first endpoint, in configuration order, whose prefix starts the name
splitTypeNameFirstMatch(mergedName) ==
    LET hits == {i \in DOMAIN endpoints : StartsWith(mergedName, getTypePrefix(endpoints[i]))}
    IN IF hits = {} THEN NoSplit
       ELSE LET i == CHOOSE h \in hits : \A g \in hits : h <= g
            IN [endpointName |-> endpoints[i].name,
                typeName |-> Substr(mergedName, Len(getTypePrefix(endpoints[i])))]

\* renaming.splitIntoEndpointAndTypeName: the endpoint with the longest matching prefix
splitIntoEndpointAndTypeName(mergedName) ==
    LET hits == {i \in DOMAIN endpoints : StartsWith(mergedName, getTypePrefix(endpoints[i]))}
    IN IF hits = {} THEN NoSplit
       ELSE LET i == CHOOSE h \in hits :
                        \A g \in hits :
                            \/ Len(getTypePrefix(endpoints[g])) < Len(getTypePrefix(endpoints[h]))
                            \/ (Len(getTypePrefix(endpoints[g])) = Len(getTypePrefix(endpoints[h])) /\ h <= g)
            IN [endpointName |-> endpoints[i].name,
                typeName |-> Substr(mergedName, Len(getTypePrefix(endpoints[i])))]

splitTypeName(mergedName) ==
    IF impl = "links" THEN splitTypeNameFirstMatch(mergedName)
    ELSE splitIntoEndpointAndTypeName(mergedName)

\* the fields the pipeline offers to transformField, in order
FieldsToVisit ==
    << [oldOuterType |-> <<"p", "T">>, name |-> "author"],
       [oldOuterType |-> <<"p", "T">>, name |-> "title"],
       [oldOuterType |-> <<"x", "T">>, name |-> "author"],
       [oldOuterType |-> <<"p", "T">>, name |-> "editor"] >>

Fields == DOMAIN FieldsToVisit

\* ---------------------------------------------------------- query building
Thrown(m) == [kind |-> "Thrown", message |-> m]
ArgumentEmpty == "Argument must not be empty"

RECURSIVE NestObjects(_, _)
\* the loop over parts.reverse(): the last part wraps the variable first
NestObjects(reversedParts, value) ==
    IF reversedParts = << >> THEN value
    ELSE NestObjects(Tail(reversedParts),
                     [kind |-> "ObjectValue",
                      fields |-> << [kind |-> "ObjectField",
                                     name |-> Head(reversedParts),
                                     value |-> value] >>])

createNestedArgumentWithVariableNode(argumentPath, variableName) ==
    LET parts == Split(argumentPath, ".")
        argName == Head(parts)
        rest == Tail(parts)
    IN IF argName = << >> THEN Thrown(ArgumentEmpty)
       ELSE [kind |-> "Argument",
             name |-> argName,
             value |-> NestObjects(Reverse(rest), [kind |-> "Variable", name |-> variableName])]

\* A selection is [alias, name]: alias is the response key (the alias if one is
\* given, the field name otherwise), name the selected field.
KeyFieldSelection(alias, keyField) == [alias |-> alias, name |-> keyField]

\* the selection sets callers request under a link field
Selections ==
    { << [alias |-> "name", name |-> "name"] >>,
      << [alias |-> "id", name |-> "name"] >> }

AliasesOf(selectionSet) == {selectionSet[i].alias : i \in DOMAIN selectionSet}

\* candidate response aliases for an added selection of a field, in order
AliasCandidates(field) == <<field, "id0", "id1">>

addFieldSelectionSafely(selectionSet, field) ==
    LET cand == AliasCandidates(field)
        free == {i \in DOMAIN cand : cand[i] \notin AliasesOf(selectionSet)}
        alias == cand[CHOOSE i \in free : \A j \in free : i <= j]
    IN [alias |-> alias,
        selectionSet |-> Append(selectionSet, KeyFieldSelection(alias, field))]

\* the selection set basicResolve sends for the caller's selection set
extSelectionSet(selectionSet) ==
    IF impl = "links"
    THEN IF link.keyField # NoKeyField
         THEN Append(selectionSet, KeyFieldSelection(link.keyField, link.keyField))
         ELSE selectionSet
    ELSE IF link.batchMode /\ link.keyField # NoKeyField
         THEN addFieldSelectionSafely(selectionSet, link.keyField).selectionSet
         ELSE selectionSet

\* the value part000 assigns to keyFieldAlias while building the query
chosenKeyFieldAlias(selectionSet) ==
    IF impl = "part000" /\ link.batchMode /\ link.keyField # NoKeyField
    THEN addFieldSelectionSafely(selectionSet, link.keyField).alias
    ELSE NoAlias

\* the name of the variable that carries the link value; the callers of this
\* specification declare no variables of their own, so part_000 keeps the base name
varName ==
    IF impl = "links" THEN <<"p", "a", "r", "a", "m">>
    ELSE LET parts == Split(link.argument, ".") IN parts[Len(parts)]

\* ------------------------------------------------------------- composition
\* mutant of transformFieldOutcome: the target endpoint and its query root type are
\* not checked before the resolver is installed
transformFieldOutcomeUnchecked(config) ==
    LET split == splitTypeName(config.oldOuterType)
    IN IF split = NoSplit THEN [kind |-> "return"]
       ELSE IF <<split.typeName, config.name>> \notin DOMAIN endpointMap[split.endpointName].links
       THEN [kind |-> "return"]
       ELSE [kind |-> "install"]

\* transformField up to the point where it returns, throws or installs the resolver
transformFieldOutcome(config) ==
    LET split == splitTypeName(config.oldOuterType)
    IN IF split = NoSplit THEN [kind |-> "return"]
       ELSE IF split.endpointName \notin DOMAIN endpointMap
       THEN [kind |-> "throw", message |-> "Endpoint not found"]
       ELSE LET endpoint == endpointMap[split.endpointName]
                linkName == <<split.typeName, config.name>>
            IN IF linkName \notin DOMAIN endpoint.links THEN [kind |-> "return"]
               ELSE IF endpoint.links[linkName].endpoint \notin DOMAIN endpointMap
               THEN [kind |-> "throw", message |-> "Link refers to nonexistent endpoint"]
               ELSE IF queryRootKind # "object"
               THEN [kind |-> "throw", message |-> "Expected object type as query type of endpoint"]
               ELSE [kind |-> "install"]

NoError == "<none>"

transformField(i) ==
    /\ composition = "running"
    /\ i = visited + 1
    /\ i \in Fields
    /\ LET outcome == transformFieldOutcome(FieldsToVisit[i])
       IN /\ installed' = IF outcome.kind = "install" THEN installed \cup {i} ELSE installed
          /\ compositionError' = IF outcome.kind = "throw" THEN outcome.message ELSE compositionError
          /\ composition' = IF outcome.kind = "throw" THEN "aborted"
                            ELSE IF i = Len(FieldsToVisit) THEN "done"
                            ELSE "running"
    /\ visited' = i
    /\ UNCHANGED <<configVars, runVars, functionVars>>

\* ----------------------------------------------------------------- runtime
\* mutant of ResponseAlias: the link value is read under the field name even when
\* the field is aliased
ResponseAliasIgnoringAlias(fieldNode) == fieldNode.name

\* fieldNode.alias ? fieldNode.alias.value : fieldNode.name.value
ResponseAlias(fieldNode) ==
    IF fieldNode.alias # NoAlias THEN fieldNode.alias ELSE fieldNode.name

\* the response keys a parent object may carry for a link field, and the parent objects
ResponseKeys(f) == {FieldsToVisit[f].name, "w"}
Sources(f, values) == [ResponseKeys(f) -> values]
FieldNodes(f) == {[name |-> FieldsToVisit[f].name, alias |-> a] : a \in {NoAlias, "w"}}

\* WeakMap get and set on the dataLoaders of one link field
dataLoaders_get(f, context) == dataLoaders[f][context]
\* mutant of dataLoaders_set: the loader is stored for the link, not per context
dataLoaders_setForAllContexts(f, context, id) ==
    [dataLoaders EXCEPT ![f] = [c \in Contexts |-> id]]

dataLoaders_set(f, context, id) == [dataLoaders EXCEPT ![f][context] = id]

\* DataLoader's cache: a key that was loaded before keeps its promise
LoaderCached(l, key) ==
    \/ key \in Range(loaders[l].queue)
    \/ \E b \in DOMAIN batches : batches[b].loader = l /\ key \in Range(batches[b].keys)

\* dataLoader.load(value)
load(l, ls, key) ==
    IF l \in DOMAIN loaders /\ LoaderCached(l, key) THEN ls
    ELSE [ls EXCEPT ![l].queue = Append(@, key)]

config_resolve(f, context, source, fieldNode, selectionSet) ==
    /\ composition = "done"
    /\ f \in installed
    /\ LET alias == ResponseAlias(fieldNode)
           value == source[alias]
           info == [fieldNode |-> fieldNode, selectionSet |-> selectionSet]
           existing == dataLoaders_get(f, context)
           l == IF existing # 0 THEN existing ELSE Len(loaders) + 1
           call == [field |-> f, context |-> context, value |-> value,
                    selectionSet |-> selectionSet,
                    ret |-> IF Truthy(value) THEN [t |-> "load", loader |-> l, key |-> value]
                            ELSE [t |-> "value", loader |-> 0, key |-> value]]
       IN /\ call \notin calls
          /\ Cardinality(calls) < MaxCalls
          /\ calls' = calls \cup {call}
          /\ IF ~Truthy(value)
             THEN UNCHANGED <<dataLoaders, loaders>>
             ELSE /\ dataLoaders' = IF existing # 0 THEN dataLoaders
                                    ELSE dataLoaders_set(f, context, l)
                  /\ loaders' = load(l,
                                     IF existing # 0 THEN loaders
                                     ELSE Append(loaders, [field |-> f, info |-> info, queue |-> << >>]),
                                     value)
    /\ UNCHANGED <<configVars, composeVars, functionVars, keyFieldAlias, batches, queries>>

\* the values resolveBatch hands to basicResolve: the key list, or each key
dispatchGroups(keys) ==
    IF link.batchMode THEN <<keys>> ELSE [i \in DOMAIN keys |-> <<keys[i]>>]

\* whether resolveBatch remaps the result by the key field
remapByKeyField ==
    IF impl = "links" THEN link.keyField # NoKeyField
    ELSE link.batchMode /\ link.keyField # NoKeyField

\* the backend call basicResolve issues for the g-th group of batch b
basicResolveQuery(b, g, group, info) ==
    [batch |-> b,
     pos |-> IF link.batchMode THEN 0 ELSE g,
     list |-> link.batchMode,
     keys |-> group,
     field |-> link.field,
     argument |-> createNestedArgumentWithVariableNode(link.argument, varName),
     selectionSet |-> extSelectionSet(info.selectionSet),
     keyFieldAlias |-> chosenKeyFieldAlias(info.selectionSet),
     state |-> "inflight",
     response |-> Pending]

\* what resolveBatch returns without waiting for the backend (batchMode unset):
\* the array of basicResolve promises, remapped by links.ts when keyField is set
unbatchedResult(keys, promises) ==
    IF remapByKeyField
    THEN ArrayOf([i \in DOMAIN keys |-> Undefined])
    ELSE ArrayOf(promises)

\* DataLoader's deferred dispatch of the keys queued on loader l
DispatchQueue(l) ==
    /\ l \in DOMAIN loaders
    /\ loaders[l].queue # << >>
    /\ LET keys == loaders[l].queue
           info == loaders[l].info
           f == loaders[l].field
           b == Len(batches) + 1
           groups == dispatchGroups(keys)
           thrown == createNestedArgumentWithVariableNode(link.argument, varName).kind = "Thrown"
           sent == IF thrown THEN << >>
                   ELSE [g \in DOMAIN groups |-> basicResolveQuery(b, g, groups[g], info)]
           promises == [g \in DOMAIN groups |->
                           IF thrown THEN Err(ArgumentEmpty) ELSE PromiseOf(Len(queries) + g)]
           result == IF link.batchMode
                     THEN (IF thrown THEN Err(ArgumentEmpty) ELSE Pending)
                     ELSE unbatchedResult(keys, promises)
       IN /\ queries' = queries \o sent
          /\ batches' = Append(batches, [loader |-> l, keys |-> keys, result |-> result,
                                         aliasRead |-> NoAlias])
          /\ keyFieldAlias' =
                IF chosenKeyFieldAlias(info.selectionSet) # NoAlias
                THEN [keyFieldAlias EXCEPT ![f] = chosenKeyFieldAlias(info.selectionSet)]
                ELSE keyFieldAlias
    /\ loaders' = [loaders EXCEPT ![l].queue = << >>]
    /\ UNCHANGED <<configVars, composeVars, functionVars, dataLoaders, calls>>

\* -------------------------------------------------------------- the backend
\* two selections under one response key that select different fields: the
\* backend rejects such a document
Conflicting(selectionSet) ==
    \E i, j \in DOMAIN selectionSet :
        /\ selectionSet[i].alias = selectionSet[j].alias
        /\ selectionSet[i].name # selectionSet[j].name

\* item[alias] of a result item of query item.q
ReadField(item, alias) ==
    LET sels == {s \in Range(queries[item.q].selectionSet) : s.alias = alias}
    IN IF sels = {} THEN Undefined
       ELSE Scalar((CHOOSE s \in sels : TRUE).name, item.key)

\* new Map(result.map(item => [item[alias], item])).get(key): the last item wins
MapGet(items, alias, key) ==
    LET hits == {i \in DOMAIN items : ReadField(items[i], alias) = Scalar(link.keyField, key)}
    IN IF hits = {} THEN Undefined
       ELSE items[CHOOSE i \in hits : \A j \in hits : j <= i]

\* the alias under which resolveBatch reads the key of a result item of link field f
keyFieldRead(f) ==
    IF impl = "links" THEN link.keyField ELSE keyFieldAlias[f]

\* the rest of resolveBatch once basicResolve(keys, info) has returned items
resolveBatchResult(f, keys, items) ==
    IF remapByKeyField
    THEN ArrayOf([i \in DOMAIN keys |-> MapGet(items, keyFieldRead(f), keys[i])])
    ELSE ArrayOf(items)

\* sequences without repetition over a set of keys: the lists a backend may return
InjectiveSeqs(S) ==
    UNION {{s \in [1..n -> S] : \A i, j \in 1..n : i # j => s[i] # s[j]} :
              n \in 0..Cardinality(S)}

\* the backend answers a key-list query with a list of items, in any order,
\* with keys missing or keys nobody asked for
BackendRespondList(q, order) ==
    /\ q \in DOMAIN queries
    /\ queries[q].state = "inflight"
    /\ queries[q].list
    /\ ~Conflicting(queries[q].selectionSet)
    /\ LET b == queries[q].batch
           f == loaders[batches[b].loader].field
           items == [i \in DOMAIN order |-> Item(order[i], q)]
       IN /\ queries' = [queries EXCEPT ![q].state = "done", ![q].response = ArrayOf(items)]
          /\ batches' = [batches EXCEPT
                            ![b].result = resolveBatchResult(f, batches[b].keys, items),
                            ![b].aliasRead = IF remapByKeyField THEN keyFieldRead(f) ELSE NoAlias]
    /\ UNCHANGED <<configVars, composeVars, functionVars, dataLoaders, keyFieldAlias, loaders, calls>>

\* the backend answers a single-key query with the object of that key, or null
BackendRespondOne(q, found) ==
    /\ q \in DOMAIN queries
    /\ queries[q].state = "inflight"
    /\ ~queries[q].list
    /\ ~Conflicting(queries[q].selectionSet)
    /\ queries' = [queries EXCEPT
                      ![q].state = "done",
                      ![q].response = IF found THEN Item(queries[q].keys[1], q) ELSE NullResult]
    /\ UNCHANGED <<configVars, composeVars, functionVars, dataLoaders, keyFieldAlias, loaders, batches, calls>>

BackendError == "backend call failed"

\* mutant of BackendFail: the failure of a key-list call does not reach the batch
BackendFailSwallowed(q) ==
    /\ q \in DOMAIN queries
    /\ queries[q].state = "inflight"
    /\ queries' = [queries EXCEPT ![q].state = "done", ![q].response = Err(BackendError)]
    /\ UNCHANGED <<configVars, composeVars, functionVars, dataLoaders, keyFieldAlias,
                   loaders, batches, calls>>

\* the backend call fails; in batch mode the await in resolveBatch rethrows
BackendFail(q) ==
    /\ q \in DOMAIN queries
    /\ queries[q].state = "inflight"
    /\ queries' = [queries EXCEPT ![q].state = "done", ![q].response = Err(BackendError)]
    /\ batches' = IF queries[q].list
                  THEN [batches EXCEPT ![queries[q].batch].result = Err(BackendError)]
                  ELSE batches
    /\ UNCHANGED <<configVars, composeVars, functionVars, dataLoaders, keyFieldAlias, loaders, calls>>

\* ------------------------------------------------- what an invocation receives
LengthMismatch == "DataLoader: batch function did not return an Array of the same length as the keys"

\* a value DataLoader hands to a load promise: a promise of a backend call is followed
Settle(v) ==
    IF v.t = "promise"
    THEN (IF queries[v.q].state = "inflight" THEN Pending ELSE queries[v.q].response)
    ELSE v

\* position of a key in a key list without repetition
PositionOf(keys, key) == CHOOSE i \in DOMAIN keys : keys[i] = key

\* the batch of loader l that carried key
BatchOf(l, key) ==
    CHOOSE b \in DOMAIN batches : batches[b].loader = l /\ key \in Range(batches[b].keys)

Dispatched(l, key) ==
    \E b \in DOMAIN batches : batches[b].loader = l /\ key \in Range(batches[b].keys)

\* the state of the promise loader l holds for key
PromiseState(l, key) ==
    IF ~Dispatched(l, key) THEN Pending
    ELSE LET batch == batches[BatchOf(l, key)]
         IN IF batch.result.t # "array" THEN batch.result
            ELSE IF Len(batch.result.items) # Len(batch.keys) THEN Err(LengthMismatch)
            ELSE Settle(batch.result.items[PositionOf(batch.keys, key)])

\* what the invocation has received so far
ResultOf(call) ==
    IF call.ret.t = "value" THEN call.ret
    ELSE PromiseState(call.ret.loader, call.ret.key)

\* ------------------------------------------------------------ specification
\* no field visited, no resolver invoked
RuntimeInit ==
    /\ composition = "running"
    /\ visited = 0
    /\ installed = {}
    /\ compositionError = NoError
    /\ dataLoaders = [f \in Fields |-> [c \in Contexts |-> 0]]
    /\ keyFieldAlias = [f \in Fields |-> NoAlias]
    /\ loaders = << >>
    /\ batches = << >>
    /\ queries = << >>
    /\ calls = {}

Init ==
    /\ impl \in Impls
    /\ link \in LinkConfigs
    /\ queryRootKind \in {"object", "scalar"}
    /\ endpointConfigs = LinkEndpointConfigs
    /\ RuntimeInit
    /\ QueryUnused /\ RouteUnused /\ MergeUnused /\ TypeUnused

\* Context objects and key values are opaque: a behaviour meets them in a fixed
\* order, the next unused one after those already used.
SetMax(S) == IF S = {} THEN 0 ELSE CHOOSE m \in S : \A n \in S : n <= m
NextContexts == {c \in Contexts : c <= SetMax({call.context : call \in calls}) + 1}
NextValues ==
    FalsyValues \cup {k \in Keys : k <= SetMax({call.value : call \in calls} \cap Keys) + 1}

Next ==
    \/ \E i \in Fields : transformField(i)
    \/ /\ Cardinality(calls) < MaxCalls
       /\ \E f \in installed, context \in NextContexts, selectionSet \in Selections :
             \E source \in Sources(f, NextValues), fieldNode \in FieldNodes(f) :
                 config_resolve(f, context, source, fieldNode, selectionSet)
    \/ \E l \in DOMAIN loaders : DispatchQueue(l)
    \/ \E q \in DOMAIN queries, order \in InjectiveSeqs(Keys) : BackendRespondList(q, order)
    \/ \E q \in DOMAIN queries, found \in BOOLEAN : BackendRespondOne(q, found)
    \/ \E q \in DOMAIN queries : BackendFail(q)

Spec == Init /\ [][Next]_vars

\* ------------------------------------------------------------------ claims
LoadCalls == {call \in calls : call.ret.t = "load"}
QueriesOf(b) == {q \in DOMAIN queries : queries[q].batch = b}
BatchMode == link.batchMode
KeyFieldSet == link.keyField # NoKeyField
NoRepetition(s) == \A i, j \in DOMAIN s : i # j => s[i] # s[j]

\* C1: with batchMode and keyField set, once the backend has returned the items of
\* a batch (permuted, partial), resolveBatch returns one element per requested key:
\* the returned item that has that key, undefined when no returned item has it.
C1_RemapRestoresRequestOrder ==
    \A b \in DOMAIN batches :
        \A q \in QueriesOf(b) :
            (BatchMode /\ KeyFieldSet /\ queries[q].response.t = "array") =>
                LET keys == batches[b].keys
                    items == queries[q].response.items
                    result == batches[b].result
                IN /\ result.t = "array"
                   /\ Len(result.items) = Len(keys)
                   /\ \A i \in DOMAIN keys :
                        IF \E n \in DOMAIN items : items[n].key = keys[i]
                        THEN result.items[i].t = "item" /\ result.items[i].key = keys[i]
                        ELSE result.items[i] = Undefined

\* C2: with batchMode set, the keys a loader collected during one tick go out in
\* exactly one backend call, whose variable is the list of those keys, each once,
\* and every invocation receives the element at the position of its key.
C2_OneDispatchPerTick ==
    BatchMode =>
        \A b \in DOMAIN batches :
            /\ Cardinality(QueriesOf(b)) = 1
            /\ NoRepetition(batches[b].keys)
            /\ \A q \in QueriesOf(b) : queries[q].list /\ queries[q].keys = batches[b].keys
            /\ \A call \in LoadCalls :
                 (call.ret.loader = batches[b].loader /\ call.value \in Range(batches[b].keys)
                    /\ batches[b].result.t = "array"
                    /\ Len(batches[b].result.items) = Len(batches[b].keys)) =>
                 ResultOf(call) = batches[b].result.items[PositionOf(batches[b].keys, call.value)]

\* C3: with batchMode unset, the N keys of a batch go out in N backend calls, the
\* i-th carrying the i-th key alone, and the invocation that asked for the i-th key
\* receives what that call returns.
C3_OneDispatchPerKey ==
    ~BatchMode =>
        \A b \in DOMAIN batches :
            /\ Cardinality(QueriesOf(b)) = Len(batches[b].keys)
            /\ \A i \in DOMAIN batches[b].keys :
                 \E q \in QueriesOf(b) :
                    /\ queries[q].pos = i
                    /\ ~queries[q].list
                    /\ queries[q].keys = <<batches[b].keys[i]>>
                    /\ \A call \in LoadCalls :
                         (call.ret.loader = batches[b].loader /\ call.value = batches[b].keys[i]) =>
                         ResultOf(call) = IF queries[q].state = "inflight" THEN Pending
                                          ELSE queries[q].response

\* C4: when batchMode or keyField is unset, resolveBatch returns what the backend
\* calls gave, in the order of the keys, without remapping by key.
C4_NoRemapReturnsBackendResults ==
    (~BatchMode \/ ~KeyFieldSet) =>
        \A b \in DOMAIN batches :
            \A q \in QueriesOf(b) :
                IF BatchMode
                THEN queries[q].response.t = "array" => batches[b].result = queries[q].response
                ELSE /\ batches[b].result.t = "array"
                     /\ queries[q].pos \in DOMAIN batches[b].result.items
                     /\ batches[b].result.items[queries[q].pos] = PromiseOf(q)

\* the alias of the key field selection in the document of query q
OwnKeyAlias(q) == queries[q].selectionSet[Len(queries[q].selectionSet)].alias

\* C5: whatever other client requests do meanwhile, a batch is remapped under the
\* alias its own query selected the key field with, and so returns what it would
\* have returned had its request run alone.
C5_RequestsShareNoState ==
    \A b \in DOMAIN batches :
        \A q \in QueriesOf(b) :
            (remapByKeyField /\ queries[q].response.t = "array") =>
                /\ batches[b].aliasRead = OwnKeyAlias(q)
                /\ batches[b].result =
                      ArrayOf([i \in DOMAIN batches[b].keys |->
                                  MapGet(queries[q].response.items, OwnKeyAlias(q), batches[b].keys[i])])

\* C6: there is one loader per (context, link field) that loaded a value: two
\* invocations use the same loader exactly when they agree on field and context.
C6_OneLoaderPerRequestAndLink ==
    /\ \A c1, c2 \in LoadCalls :
          (c1.ret.loader = c2.ret.loader) <=> (c1.field = c2.field /\ c1.context = c2.context)
    /\ \A call \in LoadCalls :
          /\ call.ret.loader \in DOMAIN loaders
          /\ loaders[call.ret.loader].field = call.field
    /\ Len(loaders) = Cardinality({<<call.field, call.context>> : call \in LoadCalls})

C6_Witness ==
    \E c1, c2 \in LoadCalls :
        /\ c1 # c2
        /\ c1.field = c2.field
        /\ c1.context = c2.context
        /\ c1.ret.loader = c2.ret.loader
        /\ Len(loaders) = 1

\* C7: an invocation whose parent object holds a falsy value under the response
\* alias of the field (the alias if given, else the field name) returns that value
\* and touches neither loaders nor the backend.
C7_FalsyLinkValueShortCircuits ==
    [][\A made \in calls' \ calls :
         \A fieldNode \in FieldNodes(made.field), source \in Sources(made.field, LinkValues) :
            LET key == IF fieldNode.alias # NoAlias THEN fieldNode.alias ELSE fieldNode.name
            IN (source[key] \in FalsyValues
                  /\ config_resolve(made.field, made.context, source, fieldNode, made.selectionSet)) =>
               /\ made.ret.t = "value"
               /\ made.ret.key = source[key]
               /\ made.ret.loader = 0
               /\ UNCHANGED <<dataLoaders, loaders, batches, queries, keyFieldAlias>>]_vars

C7_Witness ==
    \E call \in calls : call.ret.t = "value" /\ call.value = NullValue /\ loaders = << >>

\* the backend call that produces the result of a load invocation
QueryOf(call) ==
    LET b == BatchOf(call.ret.loader, call.value)
    IN {q \in QueriesOf(b) :
           queries[q].list \/ queries[q].keys = <<call.value>>}

\* C8: the backend call that produces an invocation's result selects exactly what
\* that invocation requested, plus the key field when batchMode and keyField are
\* set, also when invocations of one link and request differ in their selections.
C8_QueryCarriesOwnSelection ==
    \A call \in LoadCalls :
        Dispatched(call.ret.loader, call.value) =>
            \A q \in QueryOf(call) :
                IF BatchMode /\ KeyFieldSet
                THEN /\ SubSeq(queries[q].selectionSet, 1, Len(call.selectionSet)) = call.selectionSet
                     /\ Len(queries[q].selectionSet) = Len(call.selectionSet) + 1
                     /\ queries[q].selectionSet[Len(queries[q].selectionSet)].name = link.keyField
                ELSE queries[q].selectionSet = call.selectionSet

\* what decides transformField, read off the configuration
LinkedFields ==
    {i \in Fields : /\ StartsWith(FieldsToVisit[i].oldOuterType, <<"p">>)
                    /\ << Substr(FieldsToVisit[i].oldOuterType, 1), FieldsToVisit[i].name >>
                          \in PostLinkNames}
OwnerUnknown(i) ==
    /\ \E e \in DOMAIN endpoints : StartsWith(FieldsToVisit[i].oldOuterType, endpoints[e].typePrefix)
    /\ \A n \in {"posts", "users"} : n \notin {endpoints[e].name : e \in DOMAIN endpoints}
TargetUnknown == link.endpoint \notin {"posts", "users"}
QueryRootNotObject == queryRootKind # "object"
RuntimeUntouched ==
    calls = {} /\ loaders = << >> /\ batches = << >> /\ queries = << >>

\* C9: a field whose owning endpoint is unknown, whose link names an unknown target
\* endpoint, or whose target's query root field is not an object type makes
\* transformField throw when the field is offered: composition aborts, the field
\* gets no link resolver, and no resolver ever runs into these errors.
C9_ConfigurationErrorsFailComposition ==
    /\ \A i \in Fields :
          (i <= visited /\ (OwnerUnknown(i) \/ (i \in LinkedFields /\ (TargetUnknown \/ QueryRootNotObject)))) =>
              /\ composition = "aborted"
              /\ compositionError # NoError
              /\ installed = {}
              /\ RuntimeUntouched
    /\ installed # {} => (~TargetUnknown /\ ~QueryRootNotObject)
    /\ composition = "aborted" => RuntimeUntouched

C9_Witness ==
    /\ composition = "aborted"
    /\ TargetUnknown
    /\ visited = 1
    /\ installed = {}

\* C10: a link with an empty argument path aborts composition, and no invocation
\* ever fails with the empty-argument error.
C10_EmptyArgumentFailsComposition ==
    /\ (link.argument = << >> /\ visited = Len(FieldsToVisit)) => composition = "aborted"
    /\ \A call \in calls : ResultOf(call) # Err(ArgumentEmpty)

\* the backend calls that carried the key of a load call
CarriersOf(call) ==
    {q \in DOMAIN queries :
        /\ batches[queries[q].batch].loader = call.ret.loader
        /\ call.ret.key \in Range(queries[q].keys)}

Failed(q) == queries[q].response = Err(BackendError)

\* C11: a failed backend call is neither retried nor suppressed: every invocation
\* whose key the failed call carried completes with that same error, the key goes
\* out in no further call, and an invocation whose key another call carried does
\* not receive the error.
C11_BackendFailurePropagates ==
    \A call \in LoadCalls :
        /\ (\E q \in CarriersOf(call) : Failed(q)) =>
              /\ ResultOf(call) = Err(BackendError)
              /\ Cardinality(CarriersOf(call)) = 1
        /\ (CarriersOf(call) # {} /\ \A q \in CarriersOf(call) : ~Failed(q)) =>
              ResultOf(call) # Err(BackendError)

\* the selection set the caller of the dispatch of query q asked for
RequestedSelection(q) == loaders[batches[queries[q].batch].loader].info.selectionSet

\* basicResolve added a selection of the key field to the caller's selection set
KeyFieldAdded(q) == Len(queries[q].selectionSet) = Len(RequestedSelection(q)) + 1

\* C13: when the caller's selection set already uses the name of the key field as a
\* response alias, the added selection of the key field gets another alias that no
\* selection of the caller uses, the caller's selections stay as they are, and the
\* remap reads the key of every returned item under the alias of the added selection.
C13_KeyFieldAliasAvoidsCollision ==
    \A q \in DOMAIN queries :
        (KeyFieldAdded(q) /\ link.keyField \in AliasesOf(RequestedSelection(q))) =>
            LET requested == RequestedSelection(q)
                sent == queries[q].selectionSet
                added == sent[Len(sent)]
                batch == batches[queries[q].batch]
            IN /\ added.name = link.keyField
               /\ added.alias # link.keyField
               /\ added.alias \notin AliasesOf(requested)
               /\ SubSeq(sent, 1, Len(requested)) = requested
               /\ batch.aliasRead # NoAlias => batch.aliasRead = added.alias

\* =================================================== the forwarded query
\* The variable part and the argument of the query basicResolve builds, for
\* callers that declare variables of their own.
MaxSegments == 3     \* segments of a dotted argument path

\* Array.prototype.join
RECURSIVE Join(_, _)
Join(parts, sep) ==
    IF parts = << >> THEN << >>
    ELSE IF Len(parts) = 1 THEN Head(parts)
    ELSE Head(parts) \o <<sep>> \o Join(Tail(parts), sep)

\* the segments of an argument path: a field name, or nothing between two dots
SegmentNames == {<< >>, <<"f">>, <<"i">>}
SegmentLists == UNION {[1..n -> SegmentNames] : n \in 1..MaxSegments}
DottedPaths == {Join(segs, ".") : segs \in SegmentLists}

QueryLinkConfigs ==
    [endpoint : {"users"}, field : {"user"}, argument : DottedPaths,
     batchMode : {FALSE}, keyField : {NoKeyField}]

\* names and values of the variables a caller declares
ParamName == <<"p", "a", "r", "a", "m">>
CallerVarNames == {ParamName, <<"i">>, <<"i", "2">>}
CallerValues == {"red", "blue"}

\* links.ts: [...(operation.variableDefinitions || []), createVariableDefinitionNode(varName, type)]
createVariableDefinitionNode(defs, name) == Append(defs, name)

\* names tried for an added variable, in order
VarNameCandidates(base) == <<base, base \o <<"2">>, base \o <<"3">>, base \o <<"4">>>>

addVariableDefinitionSafely(defs, varNameBase) ==
    LET cand == VarNameCandidates(varNameBase)
        free == {i \in DOMAIN cand : cand[i] \notin Range(defs)}
        name == cand[CHOOSE i \in free : \A j \in free : i <= j]
    IN [name |-> name, variableDefinitions |-> Append(defs, name)]

\* the added variable: its name and the variable definitions of the forwarded query
addedVariable(defs) ==
    IF impl = "links"
    THEN [name |-> ParamName, variableDefinitions |-> createVariableDefinitionNode(defs, ParamName)]
    ELSE LET parts == Split(link.argument, ".")
         IN addVariableDefinitionSafely(defs, parts[Len(parts)])

\* {...variableValues, [varName]: value}
spreadVariables(values, name, value) ==
    [n \in DOMAIN values \cup {name} |-> IF n = name THEN value ELSE values[n]]

NotBuilt == [kind |-> "NotBuilt"]

\* what basicResolve hands to the endpoint, or the error thrown while building it
forwardedQuery(defs, values, value) ==
    LET added == addedVariable(defs)
        argument == createNestedArgumentWithVariableNode(link.argument, added.name)
    IN IF argument.kind = "Thrown" THEN argument
       ELSE [kind |-> "Query",
             varName |-> added.name,
             variableDefinitions |-> added.variableDefinitions,
             argument |-> argument,
             variableValues |-> spreadVariables(values, added.name, value)]

InitQuery ==
    /\ impl \in Impls
    /\ link \in QueryLinkConfigs
    /\ queryRootKind = "object"
    /\ endpointConfigs = LinkEndpointConfigs
    /\ RuntimeInit
    /\ variableDefinitions \in InjectiveSeqs(CallerVarNames)
    /\ variableValues \in [Range(variableDefinitions) -> CallerValues]
    /\ linkValue \in Keys
    /\ forwarded = NotBuilt
    /\ RouteUnused /\ MergeUnused /\ TypeUnused

basicResolve ==
    /\ forwarded = NotBuilt
    /\ forwarded' = forwardedQuery(variableDefinitions, variableValues, linkValue)
    /\ UNCHANGED <<configVars, composeVars, runVars, routeVars, mergeVars, typeVars,
                   variableDefinitions, variableValues, linkValue>>

NextQuery == basicResolve

SpecQuery == InitQuery /\ [][NextQuery]_vars

\* C12: the variable introduced for the link value has a name no variable of the
\* caller has: the forwarded variable definitions hold no name twice and every
\* variable of the caller is forwarded with the caller's value.
C12_LinkVariableIsFresh ==
    forwarded.kind = "Query" =>
        /\ forwarded.varName \notin Range(variableDefinitions)
        /\ NoRepetition(forwarded.variableDefinitions)
        /\ \A n \in Range(variableDefinitions) :
              forwarded.variableValues[n] = variableValues[n]

\* the object literal {p1: {p2: ... {pn: $v}}} of the names p1..pn, the variable
\* alone when there is no name
RECURSIVE ObjectLiteral(_, _)
ObjectLiteral(names, v) ==
    IF names = << >> THEN [kind |-> "Variable", name |-> v]
    ELSE [kind |-> "ObjectValue",
          fields |-> << [kind |-> "ObjectField",
                         name |-> Head(names),
                         value |-> ObjectLiteral(Tail(names), v)] >>]

\* C14: for every dotted argument path p1.p2...pn (p1 a name) and variable v the
\* argument built is p1: {p2: {... {pn: $v}}}, the right fold of the path: "f.i"
\* gives f: {i: $v} and the single segment "i" gives i: $v.
C14_ArgumentIsRightFoldOfPath ==
    \A segs \in SegmentLists :
        (forwarded # NotBuilt /\ link.argument = Join(segs, ".") /\ Head(segs) # << >>) =>
            forwarded.kind = "Query" /\
            forwarded.argument =
                [kind |-> "Argument",
                 name |-> Head(segs),
                 value |-> ObjectLiteral(Tail(segs), forwarded.varName)]

\* the argument of a path of three different consecutive segments has been built
C14_Witness ==
    /\ link.argument = <<"f", ".", "i", ".", "f">>
    /\ forwarded.kind = "Query"
    /\ forwarded.argument.value.fields[1].name = <<"i">>
    /\ forwarded.argument.value.fields[1].value.fields[1].name = <<"f">>

\* ============================================================== routing
\* splitTypeName on merged type names, for endpoints with any type prefixes.
MaxPrefixLen == 2    \* characters of a type prefix
MaxNameLen == 3      \* characters of a merged type name

Letters == {"a", "b"}
Strings(n) == UNION {[1..k -> Letters] : k \in 0..n}
TypePrefixes == Strings(MaxPrefixLen)
MergedNames == Strings(MaxNameLen) \ {<< >>}

\* two endpoints, each with any type prefix, in configuration order
RouteEndpointConfigs ==
    {<< [name |-> "posts", typePrefix |-> p1], [name |-> "users", typePrefix |-> p2] >> :
        p1 \in TypePrefixes, p2 \in TypePrefixes}

NotRouted == [endpointName |-> "<not called>"]

InitRoute ==
    /\ impl \in Impls
    /\ link = [endpoint |-> "users", field |-> "user", argument |-> <<"i">>,
               batchMode |-> FALSE, keyField |-> NoKeyField]
    /\ queryRootKind = "object"
    /\ endpointConfigs \in RouteEndpointConfigs
    /\ RuntimeInit
    /\ lookup \in MergedNames
    /\ routed = NotRouted
    /\ QueryUnused /\ MergeUnused /\ TypeUnused

\* a call of splitTypeName
Route ==
    /\ routed = NotRouted
    /\ routed' = splitTypeName(lookup)
    /\ UNCHANGED <<configVars, composeVars, runVars, queryVars, mergeVars, typeVars, lookup>>

NextRoute == Route

SpecRoute == InitRoute /\ [][NextRoute]_vars

PrefixOf(i) == endpointConfigs[i].typePrefix

\* no two endpoints have the same prefix and no prefix starts another
PrefixFree ==
    \A i, j \in DOMAIN endpointConfigs : i # j => ~StartsWith(PrefixOf(i), PrefixOf(j))

\* C15: when the prefixes are distinct and none starts another, the name made of
\* the prefix of an endpoint followed by an original type name is routed to exactly
\* that endpoint and that type name.
C15_RouteInvertsPrefixing ==
    (routed # NotRouted /\ PrefixFree) =>
        \A i \in DOMAIN endpointConfigs, t \in MergedNames :
            lookup = PrefixOf(i) \o t =>
                routed = [endpointName |-> endpointConfigs[i].name, typeName |-> t]

\* a prefixed name of the second endpoint has been routed back to it
C15_Witness ==
    /\ PrefixFree
    /\ Len(PrefixOf(2)) = 2
    /\ lookup = PrefixOf(2) \o <<"a">>
    /\ routed = [endpointName |-> "users", typeName |-> <<"a">>]

\* the endpoints whose prefix starts the name
Matches == {i \in DOMAIN endpointConfigs : StartsWith(lookup, PrefixOf(i))}

RoutedTo(i) ==
    routed = [endpointName |-> endpointConfigs[i].name,
              typeName |-> SubSeq(lookup, Len(PrefixOf(i)) + 1, Len(lookup))]

\* C19 as stated: the name is routed to the endpoint with the longest prefix that
\* starts it, whatever the configuration order, and to none when no prefix starts it.
C19_RouteIsLongestPrefixMatch ==
    routed # NotRouted =>
        IF Matches = {} THEN routed = NoSplit
        ELSE \E i \in Matches :
                /\ \A j \in Matches : Len(PrefixOf(j)) <= Len(PrefixOf(i))
                /\ RoutedTo(i)

\* C19 amended: the name is routed to an endpoint whose prefix starts it, links.ts
\* taking the first such endpoint in configuration order, and to none when no
\* prefix starts it; this is the longest match, whatever the order, when no
\* prefix starts another.
C19_RouteIsFirstMatch ==
    routed # NotRouted =>
        IF Matches = {} THEN routed = NoSplit
        ELSE \E i \in Matches :
                /\ RoutedTo(i)
                /\ impl = "links" => \A j \in Matches : i <= j
                /\ PrefixFree => \A j \in Matches : Len(PrefixOf(j)) <= Len(PrefixOf(i))

\* a name that the prefixes of both endpoints start, one longer than the other,
\* has been routed
C19_Witness ==
    /\ routed # NotRouted
    /\ Matches = DOMAIN endpointConfigs
    /\ Len(PrefixOf(1)) < Len(PrefixOf(2))
    /\ RoutedTo(1) \/ RoutedTo(2)

\* ========================================================= mergeSchemas
MaxSchemas == 2      \* backend schemas handed to mergeSchemas

Namespaces == {"a", "b", "c"}

\* graphql's specifiedDirectives
specifiedDirectives == <<"include", "skip", "deprecated">>

\* what getDirectives() of a backend schema returns
DirectiveLists ==
    { specifiedDirectives,
      <<"auth">> \o specifiedDirectives,
      <<"auth", "cache">> }

\* a NamedSchema: its namespace and what its schema has
NamedSchemas ==
    [namespace : Namespaces, hasQuery : BOOLEAN, hasMutation : BOOLEAN,
     hasSubscription : BOOLEAN, directives : DirectiveLists]

NoType == [kind |-> "undefined"]

\* the root type objects of the schema at position i
RootType(i, operation) == [kind |-> "ObjectType", schema |-> i, operation |-> operation]
getQueryType(schemas, i) ==
    IF schemas[i].hasQuery THEN RootType(i, "query") ELSE NoType
\* mutant of getMutationType: the query root is taken
getMutationTypeFromQuery(schemas, i) ==
    IF schemas[i].hasQuery THEN RootType(i, "query") ELSE NoType
getMutationType(schemas, i) ==
    IF schemas[i].hasMutation THEN RootType(i, "mutation") ELSE NoType
getSubscriptionType(schemas, i) ==
    IF schemas[i].hasSubscription THEN RootType(i, "subscription") ELSE NoType

\* the resolver a NamedSchema carries for an operation
ResolverOf(i, operation) == [schema |-> i, resolver |-> operation]

\* mutant of createRootFieldMaybe: a schema without the root type gets a field too
createRootFieldAlways(name, types) ==
    [kind |-> "ObjectType",
     name |-> name,
     fields |-> [n \in {types[i].namespace : i \in DOMAIN types} |->
                    LET i == CHOOSE j \in DOMAIN types :
                                 /\ types[j].namespace = n
                                 /\ \A h \in DOMAIN types : types[h].namespace = n => h <= j
                    IN [type |-> types[i].type, resolve |-> types[i].resolver]]]

\* fields[namespace] = {type, resolve} for every type that exists: a later schema
\* of the same namespace replaces the field of an earlier one
createRootFieldMaybe(name, types) ==
    LET present == {i \in DOMAIN types : types[i].type # NoType}
    IN IF present = {} THEN NoType
       ELSE [kind |-> "ObjectType",
             name |-> name,
             fields |-> [n \in {types[i].namespace : i \in present} |->
                            LET i == CHOOSE j \in present :
                                         /\ types[j].namespace = n
                                         /\ \A h \in present : types[h].namespace = n => h <= j
                            IN [type |-> types[i].type, resolve |-> types[i].resolver]]]

isNativeDirective(d) == d \in Range(specifiedDirectives)

\* Array.prototype.filter
RECURSIVE filterNonNative(_)
filterNonNative(directives) ==
    IF directives = << >> THEN << >>
    ELSE (IF isNativeDirective(Head(directives)) THEN << >> ELSE <<Head(directives)>>)
         \o filterNonNative(Tail(directives))

\* schemas.map(...).reduce((a, b) => a.concat(b), [])
RECURSIVE concatAll(_)
concatAll(lists) ==
    IF lists = << >> THEN << >> ELSE Head(lists) \o concatAll(Tail(lists))

\* the configuration mergeSchemas hands to new GraphQLSchema
mergeSchemas(schemas) ==
    [kind |-> "Schema",
     query |-> createRootFieldMaybe("Query",
                  [i \in DOMAIN schemas |->
                      [namespace |-> schemas[i].namespace,
                       type |-> getQueryType(schemas, i),
                       resolver |-> ResolverOf(i, "query")]]),
     mutation |-> createRootFieldMaybe("Mutation",
                  [i \in DOMAIN schemas |->
                      [namespace |-> schemas[i].namespace,
                       type |-> getMutationType(schemas, i),
                       resolver |-> ResolverOf(i, "mutation")]]),
     subscription |-> createRootFieldMaybe("Subscription",
                  [i \in DOMAIN schemas |->
                      [namespace |-> schemas[i].namespace,
                       type |-> getSubscriptionType(schemas, i),
                       resolver |-> ResolverOf(i, "subscription")]]),
     directives |-> concatAll([i \in DOMAIN schemas |-> filterNonNative(schemas[i].directives)])
                    \o specifiedDirectives]

NotMerged == [kind |-> "NotMerged"]

InitMerge ==
    /\ impl = "links"
    /\ link = [endpoint |-> "users", field |-> "user", argument |-> <<"i">>,
               batchMode |-> FALSE, keyField |-> NoKeyField]
    /\ queryRootKind = "object"
    /\ endpointConfigs = LinkEndpointConfigs
    /\ RuntimeInit
    /\ namedSchemas \in UNION {[1..n -> NamedSchemas] : n \in 0..MaxSchemas}
    /\ mergedSchema = NotMerged
    /\ QueryUnused /\ RouteUnused /\ TypeUnused

\* a call of mergeSchemas
MergeSchemas ==
    /\ mergedSchema = NotMerged
    /\ mergedSchema' = mergeSchemas(namedSchemas)
    /\ UNCHANGED <<configVars, composeVars, runVars, queryVars, routeVars, typeVars, namedSchemas>>

NextMerge == MergeSchemas

SpecMerge == InitMerge /\ [][NextMerge]_vars

NamespacesDistinct ==
    \A i, j \in DOMAIN namedSchemas :
        i # j => namedSchemas[i].namespace # namedSchemas[j].namespace

\* C16: for backends with pairwise distinct namespaces the Query type of the merged
\* schema has one field per backend whose schema has a query root, named by the
\* namespace of the backend and typed with its query root type, and no other field.
C16_QueryHasOneFieldPerBackend ==
    (mergedSchema # NotMerged /\ NamespacesDistinct) =>
        LET withQuery == {i \in DOMAIN namedSchemas : namedSchemas[i].hasQuery}
        IN IF withQuery = {} THEN mergedSchema.query = NoType
           ELSE /\ mergedSchema.query.kind = "ObjectType"
                /\ mergedSchema.query.name = "Query"
                /\ DOMAIN mergedSchema.query.fields =
                      {namedSchemas[i].namespace : i \in withQuery}
                /\ \A i \in withQuery :
                      mergedSchema.query.fields[namedSchemas[i].namespace].type
                          = RootType(i, "query")

\* two backends merged, one with a query root and one without
C16_Witness ==
    /\ mergedSchema # NotMerged
    /\ NamespacesDistinct
    /\ Len(namedSchemas) = 2
    /\ namedSchemas[1].hasQuery /\ ~namedSchemas[2].hasQuery
    /\ DOMAIN mergedSchema.query.fields = {namedSchemas[1].namespace}

\* C17: the merged schema has a Mutation root exactly when some backend schema has
\* a mutation root, and a Subscription root exactly when some backend schema has a
\* subscription root.
C17_OptionalRootsIffSomeBackendHasThem ==
    mergedSchema # NotMerged =>
        /\ mergedSchema.mutation # NoType
              <=> \E i \in DOMAIN namedSchemas : namedSchemas[i].hasMutation
        /\ mergedSchema.subscription # NoType
              <=> \E i \in DOMAIN namedSchemas : namedSchemas[i].hasSubscription

\* a merged schema with a Mutation root and without a Subscription root
C17_Witness ==
    /\ mergedSchema # NotMerged
    /\ mergedSchema.mutation # NoType
    /\ mergedSchema.mutation.name = "Mutation"
    /\ mergedSchema.subscription = NoType
    /\ \E i \in DOMAIN namedSchemas : namedSchemas[i].hasQuery

\* C20: the directives of the merged schema are the non-built-in directives of all
\* backend schemas together with the built-in ones: every non-built-in directive of
\* a backend is there and no directive is there more than once, also when several
\* backends declare the same directive.
C20_DirectivesAreUnion ==
    mergedSchema # NotMerged =>
        /\ Range(mergedSchema.directives) =
              Range(specifiedDirectives) \cup
              UNION {Range(namedSchemas[i].directives) : i \in DOMAIN namedSchemas}
        /\ NoRepetition(mergedSchema.directives)

\* ===================================================== type resolvers
\* resolveType as TypeResolversTransformer installs it on abstract types.
TypeNames == {"A", "B"}
NoSuchType == "<no type>"
TypeKinds == {"GraphQLObjectType", "GraphQLInterfaceType", "GraphQLScalarType"}

\* the types of the merged schema: the kind of the type of each name, if any
TypeRegistries == [TypeNames -> TypeKinds \cup {NoSuchType}]

\* transformInterfaceType and transformUnionType are both transformAbstractType
AbstractTypes ==
    { [name |-> "I", kind |-> "GraphQLInterfaceType"],
      [name |-> "U", kind |-> "GraphQLUnionType"] }

\* values of __typename: the name of a type, a name no type has, or undefined
TypenameValues == TypeNames \cup {"Z", "<undefined>"}

\* resolved values: a primitive, an object without __typename, objects with it
ResolvedValues ==
    { [t |-> "primitive"], [t |-> "object", has |-> FALSE] }
    \cup { [t |-> "object", has |-> TRUE, typename |-> n] : n \in TypenameValues }

\* context.findType(name)
findType(name) ==
    IF name \in DOMAIN typeRegistry /\ typeRegistry[name] # NoSuchType
    THEN [kind |-> typeRegistry[name], name |-> name]
    ELSE Undefined

\* mutant of instanceofGraphQLObjectType: any type passes
instanceofAnyType(type) == TRUE

\* type instanceof GraphQLObjectType
instanceofGraphQLObjectType(type) == type.kind = "GraphQLObjectType"

\* the resolveType that transformAbstractType installs on config
resolveType(config, value) ==
    IF value.t # "object"
    THEN Thrown("TypeError: Cannot use 'in' operator")
    ELSE IF ~value.has
    THEN Thrown(<<"__typename does not exist on fetched object of abstract type", config.name>>)
    ELSE LET type == findType(value.typename)
         IN IF type = Undefined
            THEN Thrown(<<"there is no type with that name", config.name, value.typename>>)
            ELSE IF ~instanceofGraphQLObjectType(type)
            THEN Thrown(<<"not a GraphQLObjectType", config.name, value.typename, type.kind>>)
            ELSE type

NotResolved == [kind |-> "NotResolved"]

InitTypeResolver ==
    /\ impl = "links"
    /\ link = [endpoint |-> "users", field |-> "user", argument |-> <<"i">>,
               batchMode |-> FALSE, keyField |-> NoKeyField]
    /\ queryRootKind = "object"
    /\ endpointConfigs = LinkEndpointConfigs
    /\ RuntimeInit
    /\ abstractType \in AbstractTypes
    /\ obj \in ResolvedValues
    /\ typeRegistry \in TypeRegistries
    /\ resolved = NotResolved
    /\ QueryUnused /\ RouteUnused /\ MergeUnused

\* a call of config.resolveType(obj) of the abstract type
ResolveType ==
    /\ resolved = NotResolved
    /\ resolved' = resolveType(abstractType, obj)
    /\ UNCHANGED <<configVars, composeVars, runVars, queryVars, routeVars, mergeVars,
                   abstractType, obj, typeRegistry>>

NextTypeResolver == ResolveType

SpecTypeResolver == InitTypeResolver /\ [][NextTypeResolver]_vars

\* C18: the type resolver of an interface or union type returns a type exactly when
\* the value carries __typename, the schema has a type of that name and that type
\* is an object type, and the type returned is that one; when __typename is absent,
\* when no type has that name and when the type is not an object type it fails
\* with an error.
C18_ResolveTypeReturnsObjectTypeOrFails ==
    resolved # NotResolved =>
        LET carries == obj.t = "object" /\ obj.has
            found == carries /\ obj.typename \in TypeNames
                        /\ typeRegistry[obj.typename] # NoSuchType
            object == found /\ typeRegistry[obj.typename] = "GraphQLObjectType"
        IN IF object
           THEN resolved = [kind |-> "GraphQLObjectType", name |-> obj.typename]
           ELSE resolved.kind = "Thrown"

\* the resolver of a union type has failed on a value whose __typename names an
\* interface type
C18_Witness ==
    /\ abstractType.kind = "GraphQLUnionType"
    /\ obj.t = "object" /\ obj.has /\ obj.typename = "A"
    /\ typeRegistry["A"] = "GraphQLInterfaceType"
    /\ resolved.kind = "Thrown"

\* ============================================================= progress
\* DataLoader dispatches the queued keys of a loader on the next tick
Tick == \E l \in DOMAIN loaders : DispatchQueue(l)

\* a backend call that was dispatched completes, with a response or an error
BackendCompletes ==
    \/ \E q \in DOMAIN queries, order \in InjectiveSeqs(Keys) : BackendRespondList(q, order)
    \/ \E q \in DOMAIN queries, found \in BOOLEAN : BackendRespondOne(q, found)
    \/ \E q \in DOMAIN queries : BackendFail(q)

\* the link specification with a tick after every load and with backend calls
\* that complete
FairSpec == Init /\ [][Next]_vars /\ WF_vars(Tick) /\ WF_vars(BackendCompletes)

\* the invocations with a truthy link value that have received nothing yet
PendingCalls == {call \in LoadCalls : ResultOf(call) = Pending}

\* C21: when every dispatched backend call completes, every invocation with a
\* truthy link value completes, with a value or an error: again and again no
\* invocation made so far is waiting, also after a batch response with fewer or
\* more items than keys.
C21_EveryInvocationCompletes == []<>(PendingCalls = {})

\* an invocation has completed with the error DataLoader raises for a batch
\* result of another length than the key list
C21_Witness ==
    \E call \in LoadCalls :
        /\ ResultOf(call) = Err(LengthMismatch)
        /\ batches[BatchOf(call.ret.loader, call.ret.key)].result.t = "array"

====
